---------------------------- MODULE Spec2Model ----------------------------
(***************************************************************************)
(* Model of src/server.cjs: the Sensex expiry calendar server.             *)
(*                                                                         *)
(* Representation of the JavaScript values:                                *)
(*   - a Date object is its time value, in MINUTES since                   *)
(*     1970-01-01T00:00Z (the code only ever moves whole days and whole    *)
(*     timezone offsets, so minutes lose nothing);                         *)
(*   - a canonical "YYYY-MM-DD" string is the integer whose decimal digits *)
(*     are the string's digits (2025-10-02 is 20251002): string equality   *)
(*     and the lexicographic order of Array.prototype.sort are integer     *)
(*     equality and order for four-digit years;                            *)
(*   - an array is a sequence.                                             *)
(***************************************************************************)
EXTENDS Integers, Sequences, FiniteSets, TLC

VARIABLES
    tzOffset,       \* Date.prototype.getTimezoneOffset() of the host, minutes
    holidayCache,   \* let holidayCache (line 9)
    lastDiag,       \* let lastDiag (line 10)
    response,       \* the last HTTP response sent
    refreshEnv,     \* what the last refreshHolidayCache run found on the host
    rf,             \* frame of a refreshHolidayCache run observed step by step
    sh,             \* frame of a shiftToPreviousTradingDay call
    gen,            \* frame of a generateExpiries call
    ld              \* frame of a loadHolidaysFromXlsx call

vars == <<tzOffset, holidayCache, lastDiag, response, refreshEnv, rf, sh, gen, ld>>

-----------------------------------------------------------------------------
(* Bounds of the model *)

\* number of calendar days before BaseThursday that a holiday set may contain
PoolDays == 6
\* largest monthsAhead a request asks for
MaxMonths == 2

-----------------------------------------------------------------------------
(* The proleptic Gregorian calendar, as ECMAScript's Date computes it *)

MinPerDay == 24 * 60

IsLeap(y) == (y % 4 = 0 /\ y % 100 # 0) \/ y % 400 = 0

DaysInMonth(y, m0) ==
    CASE m0 = 1 -> IF IsLeap(y) THEN 29 ELSE 28
      [] m0 \in {3, 5, 8, 10} -> 30
      [] OTHER -> 31

\* days from 1970-01-01 to January 1st of year y (y >= 1970)
DaysBeforeYear(y) ==
    365 * (y - 1970) + ((y - 1969) \div 4) - ((y - 1901) \div 100)
        + ((y - 1601) \div 400)

RECURSIVE DaysBeforeMonth(_, _)
DaysBeforeMonth(y, m0) ==
    IF m0 = 0 THEN 0 ELSE DaysBeforeMonth(y, m0 - 1) + DaysInMonth(y, m0 - 1)

\* day number of (year, 0-based month, day of month)
DaysFromCivil(y, m0, dd) == DaysBeforeYear(y) + DaysBeforeMonth(y, m0) + dd - 1

\* the civil date <<year, 0-based month, day of month>> of day number n
CivilOfDay(n) ==
    LET y == CHOOSE y \in (1970 + n \div 366)..(1970 + n \div 365) :
                 DaysBeforeYear(y) <= n /\ n < DaysBeforeYear(y + 1)
        r == n - DaysBeforeYear(y)
        m0 == CHOOSE m0 \in 0..11 :
                 DaysBeforeMonth(y, m0) <= r /\ r < DaysBeforeMonth(y, m0) + DaysInMonth(y, m0)
    IN  <<y, m0, r - DaysBeforeMonth(y, m0) + 1>>

\* the day numbers of the model: 2024-01-01 to 2026-12-31, with the civil
\* date of each computed once
CalendarDays == DaysFromCivil(2024, 0, 1)..DaysFromCivil(2026, 11, 31)
CivilTable == [n \in CalendarDays |-> CivilOfDay(n)]

YearOfDay(n) == CivilTable[n][1]
MonthOfDay(n) == CivilTable[n][2]
DomOfDay(n) == CivilTable[n][3]

\* 1970-01-01 was a Thursday (getDay() = 4)
WeekdayOfDay(n) == (n + 4) % 7

-----------------------------------------------------------------------------
(* Canonical date strings *)

\* the text "YYYY-MM-DD" of a day number: Date.prototype.toISOString().slice(0, 10)
IsoText(n) == YearOfDay(n) * 10000 + (MonthOfDay(n) + 1) * 100 + DomOfDay(n)

\* the day number a canonical date text names
DayOfText(s) == DaysFromCivil(s \div 10000, ((s \div 100) % 100) - 1, s % 100)

\* new Date("YYYY-MM-DD"): a date-only ISO text is midnight UTC
NewDateFromIso(s) == DayOfText(s) * MinPerDay

-----------------------------------------------------------------------------
(* Date methods that read the host's local time *)

\* the local day number of a Date
LocalDay(t) == (t - tzOffset) \div MinPerDay

getDay(t) == WeekdayOfDay(LocalDay(t))
getMonth(t) == MonthOfDay(LocalDay(t))
getFullYear(t) == YearOfDay(LocalDay(t))

\* d.setDate(d.getDate() + k): k local days later, local time of day kept
SetDatePlus(t, k) == t + k * MinPerDay

\* new Date(year, monthIndex, 1): local midnight; monthIndex may exceed 11
NewDateLocal(y, m0, dd) ==
    DaysFromCivil(y + m0 \div 12, m0 % 12, dd) * MinPerDay + tzOffset

-----------------------------------------------------------------------------
(* Date helpers, lines 13-33 *)

formatDateIST(t) ==
    LET local == t - tzOffset
    IN  IsoText(local \div MinPerDay)

isWeekend(t) ==
    LET day == getDay(t)
    IN  day = 0 \/ day = 6

Includes(arr, x) == \E i \in 1..Len(arr) : arr[i] = x

isNonTradingDay(dateStr, holidays) ==
    LET d == NewDateFromIso(dateStr)
    IN  isWeekend(d) \/ Includes(holidays, dateStr)


\* lines 26-33; the loop ends because the array holds finitely many dates
RECURSIVE ShiftLoop(_, _)
ShiftLoop(d, holidays) ==
    LET d1 == SetDatePlus(d, -1)
        candidate == formatDateIST(d1)
    IN  IF ~isNonTradingDay(candidate, holidays) THEN candidate
        ELSE ShiftLoop(d1, holidays)

shiftToPreviousTradingDay(dateStr, holidays) ==
    ShiftLoop(NewDateFromIso(dateStr), holidays)

-----------------------------------------------------------------------------
(* Array.from(new Set(a)).sort(), lines 47, 139, 167, 182 *)

\* Array.from(new Set(a)): first occurrences, in order
RECURSIVE Dedupe(_)
Dedupe(arr) ==
    IF arr = <<>> THEN <<>>
    ELSE LET front == Dedupe(SubSeq(arr, 1, Len(arr) - 1))
             x == arr[Len(arr)]
         IN  IF Includes(front, x) THEN front ELSE Append(front, x)

\* one insertion of Array.prototype.sort's ascending order
RECURSIVE InsertAsc(_, _)
InsertAsc(arr, x) ==
    IF arr = <<>> THEN <<x>>
    ELSE IF x < arr[1] THEN <<x>> \o arr
    ELSE <<arr[1]>> \o InsertAsc(Tail(arr), x)

RECURSIVE SortAsc(_)
SortAsc(arr) ==
    IF arr = <<>> THEN <<>> ELSE InsertAsc(SortAsc(Tail(arr)), arr[1])

DedupeSort(arr) == SortAsc(Dedupe(arr))

-----------------------------------------------------------------------------
(* Expiry generator, lines 36-48 *)

\* A JavaScript number is [k |-> "num", v |-> n] or [k |-> "nan", v |-> 0].
\* A start date text is [k |-> "iso", v |-> YYYYMMDD] (a date-only ISO text),
\* or [k |-> "junk", v |-> 0], a text new Date() cannot parse (Invalid Date).
Num(n) == [k |-> "num", v |-> n]
NaN == [k |-> "nan", v |-> 0]
IsoStr(s) == [k |-> "iso", v |-> s]
JunkStr == [k |-> "junk", v |-> 0]

\* m < monthsAhead, line 40: false when monthsAhead is NaN
LessThanNumber(m, monthsAhead) == monthsAhead.k = "num" /\ m < monthsAhead.v

\* the inner loop, lines 43-45: the dates pushed from day d on
RECURSIVE WalkMonth(_, _)
WalkMonth(d, month) ==
    IF getMonth(d) # month THEN <<>>
    ELSE (IF getDay(d) = 4 THEN <<formatDateIST(d)>> ELSE <<>>)
         \o WalkMonth(SetDatePlus(d, 1), month)

\* one iteration of the outer loop, lines 41-45: the dates it pushes.  With an
\* Invalid Date start, firstOfMonth is invalid, its getMonth() is NaN and
\* NaN === NaN is false: the inner loop does not run.
GenMonth(startDate, m) ==
    IF startDate.k # "iso" THEN <<>>
    ELSE LET start == NewDateFromIso(startDate.v)
             firstOfMonth == NewDateLocal(getFullYear(start), getMonth(start) + m, 1)
             month == getMonth(firstOfMonth)
         IN  WalkMonth(firstOfMonth, month)

\* the outer loop from month offset m on, lines 40-46
RECURSIVE GenLoop(_, _, _)
GenLoop(startDate, monthsAhead, m) ==
    IF ~LessThanNumber(m, monthsAhead) THEN <<>>
    ELSE GenMonth(startDate, m) \o GenLoop(startDate, monthsAhead, m + 1)

generateExpiries(startDate, monthsAhead) ==
    DedupeSort(GenLoop(startDate, monthsAhead, 0))

-----------------------------------------------------------------------------
(* Robust parsing, lines 51-85 *)

(***************************************************************************)
(* A raw cell or token is a record [k, v]:                                 *)
(*   "null"      null or undefined (a missing cell)                        *)
(*   "serial"    a finite number v, a spreadsheet day serial               *)
(*   "nonfinite" NaN or an infinity                                        *)
(*   "blank"     a text that is empty after trim                           *)
(*   "isoText"   the date-only ISO text of date v, e.g. "2025-10-02"       *)
(*   "dMonY"     the text D-MMM-YYYY of date v, e.g. "14-Mar-2025"         *)
(*   "monthDY"   the text Month D,YYYY of date v, e.g. "October 02,2025"   *)
(*   "word"      a text with no date in it, e.g. "Diwali"                  *)
(* The result of parseAnyDate is [ok |-> TRUE, t |-> time value] or        *)
(* NullDate.                                                               *)
(***************************************************************************)
Cell(k, v) == [k |-> k, v |-> v]
NullCell == Cell("null", 0)
NullDate == [ok |-> FALSE, t |-> 0]
SomeDate(t) == [ok |-> TRUE, t |-> t]

\* Date.UTC(1899, 11, 30), line 52, as a day number
ExcelBaseDay == DaysFromCivil(1899, 11, 30)

fromExcelSerial(n) == (ExcelBaseDay + n) * MinPerDay

\* new Date(y, m, d) and the free-form texts new Date(s) reads as local time
LocalMidnightOfText(s) == DayOfText(s) * MinPerDay + tzOffset

parseAnyDate(raw) ==
    CASE raw.k = "null" -> NullDate                                 \* line 56
      [] raw.k = "serial" -> SomeDate(fromExcelSerial(raw.v))       \* lines 57-60
      [] raw.k = "nonfinite" -> NullDate     \* String(raw) is "NaN"/"Infinity": no branch reads it
      [] raw.k = "blank" -> NullDate                                \* line 62
      [] raw.k = "isoText" -> SomeDate(NewDateFromIso(raw.v))       \* lines 64-65, UTC
      [] raw.k = "dMonY" -> SomeDate(LocalMidnightOfText(raw.v))    \* lines 64-65 (66-78)
      [] raw.k = "monthDY" -> SomeDate(LocalMidnightOfText(raw.v))  \* lines 63-65 (79-83)
      [] OTHER -> NullDate                                          \* line 84

-----------------------------------------------------------------------------
(* Loaders with diagnostics, lines 104-168 *)

\* samples.length < 8, lines 126 and 157
MaxSamples == 8

\* row[col] with a 0-based column; undefined past the end of the row
CellAt(row, col) == IF col + 1 <= Len(row) THEN row[col + 1] ELSE NullCell

\* Math.max(...rows.map(r => r.length)), line 110.  With no rows it is
\* -Infinity, which is below every column index: -1 stands for it.
RECURSIVE MaxRowLength(_)
MaxRowLength(rows) ==
    IF rows = <<>> THEN 0 - 1
    ELSE LET rest == MaxRowLength(Tail(rows))
         IN  IF Len(rows[1]) > rest THEN Len(rows[1]) ELSE rest

\* the inner loop of line 114
RECURSIVE CountParsed(_, _)
CountParsed(rows, col) ==
    IF rows = <<>> THEN 0
    ELSE (IF parseAnyDate(CellAt(rows[1], col)).ok THEN 1 ELSE 0)
         + CountParsed(Tail(rows), col)

\* an update that also replaces the best column on a tie
BetterColumn_Mutant(count, bestCount) == count >= bestCount

\* line 115: the update of (bestCol, bestCount) after counting column col
BetterColumn(count, bestCount) == count > bestCount

\* one iteration of the loop of lines 112-116 on best = <<bestCol, bestCount>>
ScanColumn(rows, col, best) ==
    LET count == CountParsed(rows, col)
    IN  IF BetterColumn(count, best[2]) THEN <<col, count>> ELSE best

RECURSIVE ScanColumns(_, _, _, _)
ScanColumns(rows, col, maxCols, best) ==
    IF ~(col < maxCols) THEN best
    ELSE ScanColumns(rows, col + 1, maxCols, ScanColumn(rows, col, best))

\* rows.forEach of lines 120-128: <<holidays, samples>>
RECURSIVE ExtractColumn(_, _, _, _)
ExtractColumn(rows, idx, bestCol, acc) ==
    IF idx > Len(rows) THEN acc
    ELSE LET val == CellAt(rows[idx], bestCol)
             parsed == parseAnyDate(val)
         IN  IF parsed.ok
             THEN LET normalized == formatDateIST(parsed.t)
                  IN  ExtractColumn(rows, idx + 1, bestCol,
                        <<Append(acc[1], normalized),
                          IF Len(acc[2]) < MaxSamples
                          THEN Append(acc[2], [row |-> idx, raw |-> val, out |-> normalized])
                          ELSE acc[2]>>)
             ELSE ExtractColumn(rows, idx + 1, bestCol, acc)

\* lines 104-140, from the rows sheet_to_json returned: [holidays, diag]
loadHolidaysFromXlsx(rows) ==
    LET best == ScanColumns(rows, 0, MaxRowLength(rows), <<0, 0>>)
        got == ExtractColumn(rows, 1, best[1], <<<<>>, <<>>>>)
    IN  [holidays |-> DedupeSort(got[1]),
         diag |-> [source |-> "xlsx", rowCount |-> Len(rows), bestCol |-> best[1],
                   bestCount |-> best[2], samples |-> got[2]]]

\* lines 151-154: the first part of a line that parses
RECURSIVE FirstParsed(_)
FirstParsed(parts) ==
    IF parts = <<>> THEN NullDate
    ELSE LET d == parseAnyDate(parts[1])
         IN  IF d.ok THEN d ELSE FirstParsed(Tail(parts))

\* .filter(Boolean) of line 148: parts that are empty after trim are dropped
RECURSIVE NonBlank(_)
NonBlank(parts) ==
    IF parts = <<>> THEN <<>>
    ELSE IF parts[1].k = "blank" THEN NonBlank(Tail(parts))
    ELSE <<parts[1]>> \o NonBlank(Tail(parts))

\* lines.forEach of lines 147-159: <<holidays, samples>>
RECURSIVE ExtractLines(_, _, _)
ExtractLines(lines, idx, acc) ==
    IF idx > Len(lines) THEN acc
    ELSE LET d == FirstParsed(NonBlank(lines[idx]))
         IN  IF d.ok
             THEN LET normalized == formatDateIST(d.t)
                  IN  ExtractLines(lines, idx + 1,
                        <<Append(acc[1], normalized),
                          IF Len(acc[2]) < MaxSamples
                          THEN Append(acc[2], [line |-> idx, raw |-> lines[idx], out |-> normalized])
                          ELSE acc[2]>>)
             ELSE ExtractLines(lines, idx + 1, acc)

\* line 144: lines that are empty after trim are dropped
RECURSIVE NonBlankLines(_)
NonBlankLines(raw) ==
    IF raw = <<>> THEN <<>>
    ELSE IF Len(raw[1]) = 0 \/ (Len(raw[1]) = 1 /\ raw[1][1].k = "blank")
         THEN NonBlankLines(Tail(raw))
    ELSE <<raw[1]>> \o NonBlankLines(Tail(raw))

\* lines 142-168, from the file's lines, each the sequence of its
\* comma-separated parts: [holidays, diag]
loadHolidaysFromCsv(raw) ==
    LET lines == NonBlankLines(raw)
        got == ExtractLines(lines, 1, <<<<>>, <<>>>>)
    IN  [holidays |-> DedupeSort(got[1]),
         diag |-> [source |-> "csv", lineCount |-> Len(lines), samples |-> got[2]]]

-----------------------------------------------------------------------------
(* File detection, lines 88-101 *)

\* A holiday file of the working directory, named BSE_Holidays_<year>.<ext>:
\* corrupt when reading it throws; rows is what sheet_to_json returns for an
\* xlsx file, lines the parts of each line of a csv file.
HolidayFile(year, ext, corrupt, content) ==
    [year |-> year, ext |-> ext, corrupt |-> corrupt, content |-> content]
NoFile == HolidayFile(0, "none", FALSE, <<>>)

\* the directory is the sequence readdirSync lists; candidates[0] is the first
\* file of the year, and with no candidate the two existsSync probes fail too
RECURSIVE findHolidayFileForYear(_, _)
findHolidayFileForYear(dir, year) ==
    IF dir = <<>> THEN NoFile
    ELSE IF dir[1].year = year THEN dir[1]
    ELSE findHolidayFileForYear(Tail(dir), year)

-----------------------------------------------------------------------------
(* Hard fallback, lines 171-183 *)

known2025 ==
    << Cell("monthDY", 20250226), Cell("dMonY", 20250314), Cell("monthDY", 20250331),
       Cell("monthDY", 20250410), Cell("monthDY", 20250414), Cell("monthDY", 20250418),
       Cell("monthDY", 20250501), Cell("monthDY", 20250815), Cell("monthDY", 20250827),
       Cell("monthDY", 20251002), Cell("monthDY", 20251021), Cell("monthDY", 20251022),
       Cell("monthDY", 20251105), Cell("monthDY", 20251225) >>

\* .map(parseAnyDate).filter(Boolean).map(formatDateIST), lines 177-180
RECURSIVE NormalizeAll(_)
NormalizeAll(cells) ==
    IF cells = <<>> THEN <<>>
    ELSE LET d == parseAnyDate(cells[1])
         IN  IF d.ok THEN <<formatDateIST(d.t)>> \o NormalizeAll(Tail(cells))
             ELSE NormalizeAll(Tail(cells))

\* the year parameter is not read
fallbackHolidays(year) ==
    LET normalized == NormalizeAll(known2025)
    IN  [holidays |-> DedupeSort(normalized),
         diag |-> [source |-> "fallback", count |-> Len(normalized)]]

-----------------------------------------------------------------------------
(* Refresh, lines 186-213 *)

\* lines 191-201: the loader chosen by the file's extension, [holidays, diag]
LoadFrom(file, currentYear) ==
    IF file.ext = "xlsx" THEN loadHolidaysFromXlsx(file.content)
    ELSE IF file.ext = "csv" THEN loadHolidaysFromCsv(file.content)
    ELSE fallbackHolidays(currentYear)

\* a refresh that never takes a load for empty
IsEmptyLoad_Mutant(loaded) == FALSE

\* lines 203-206
IsEmptyLoad(loaded) == Len(loaded) = 0

FallbackIfEmpty(got, currentYear) ==
    IF IsEmptyLoad(got.holidays) THEN fallbackHolidays(currentYear) ELSE got

\* a refresh that publishes the loader's result as soon as it has it
CacheWhileLoading_Mutant(cache, loaded) == loaded

\* lines 191-206 build the local loaded: holidayCache keeps its value
CacheWhileLoading(cache, loaded) == cache

\* lines 209-212
RefreshCatch(now) == fallbackHolidays(getFullYear(now))

\* the whole of refreshHolidayCache: the new [holidays, diag], i.e. the values
\* of holidayCache and lastDiag when it returns
refreshHolidayCache(now, dir) ==
    LET currentYear == getFullYear(now)
        file == findHolidayFileForYear(dir, currentYear)
    IN  IF file.corrupt THEN RefreshCatch(now)
        ELSE FallbackIfEmpty(LoadFrom(file, currentYear), currentYear)

-----------------------------------------------------------------------------
(* Route /api/sensex/expiries, lines 232-247 *)

\* A query parameter is [k |-> "absent"], the empty text [k |-> "empty"], a
\* decimal integer text [k |-> "digits", v |-> n], a date-only ISO text
\* [k |-> "iso", v |-> YYYYMMDD], or a text of letters [k |-> "word"].
Query(k, v) == [k |-> k, v |-> v]
Absent == Query("absent", 0)

\* x || y for a query parameter: undefined and "" are falsy
IsFalsy(q) == q.k \in {"absent", "empty"}

\* Number(text)
NumberOf(q) == IF q.k = "digits" THEN Num(q.v) ELSE NaN

\* line 234
DefaultMonthsAhead == 3
MonthsAheadOf(q) == IF IsFalsy(q) THEN Num(DefaultMonthsAhead) ELSE NumberOf(q)

\* line 235
StartDateOf(q, now) ==
    IF IsFalsy(q) THEN IsoStr(formatDateIST(now))
    ELSE IF q.k = "iso" THEN IsoStr(q.v)
    ELSE JunkStr

\* lines 237-241, one element
AdjustOne(dateStr, holidays) ==
    IF isNonTradingDay(dateStr, holidays)
    THEN shiftToPreviousTradingDay(dateStr, holidays)
    ELSE dateStr

AdjustAll(expiries, holidays) ==
    [i \in 1..Len(expiries) |-> AdjustOne(expiries[i], holidays)]

\* the status the handler answers with: nothing in the try block throws on a
\* text start date or a numeric monthsAhead, so line 245 is not reached
ExpiriesStatus(startDate, monthsAhead) == 200

-----------------------------------------------------------------------------
(* Input sets *)

\* the host's timezone: Asia/Kolkata (UTC+5:30), UTC, America/Bogota (UTC-5);
\* getTimezoneOffset() is UTC minus local time
TimezoneOffsets == {0 - 330, 0, 300}

\* Thursday 2025-10-02, a holiday of the 2025 list
BaseThursday == DaysFromCivil(2025, 9, 2)

\* the dates a holiday file of the model may list: the week up to BaseThursday
HolidayPool == {IsoText(BaseThursday - k) : k \in 0..PoolDays}

RECURSIVE SortedSeqOf(_)
SortedSeqOf(S) ==
    IF S = {} THEN <<>>
    ELSE LET x == CHOOSE y \in S : \A z \in S : y <= z
         IN  <<x>> \o SortedSeqOf(S \ {x})

Range(arr) == {arr[i] : i \in 1..Len(arr)}

HolidayArrays == {SortedSeqOf(S) : S \in SUBSET HolidayPool}

\* the dates shiftToPreviousTradingDay is called on: Wednesday to Saturday
ShiftDates == {IsoText(BaseThursday + k) : k \in (0 - 1)..2}

-----------------------------------------------------------------------------
(* Idle frames, and the server's variables before its startup load: lastDiag is
   {} (line 10), shown as a record with no loader's source *)

IdleFrame == [pc |-> "idle"]
NoResponse == [route |-> "none", status |-> 0]
NoEnv == [year |-> 0, dir |-> <<>>]
NoDiag == [source |-> "none"]

-----------------------------------------------------------------------------
(* SpecShift: one call of shiftToPreviousTradingDay, one loop iteration per step *)

InitShift ==
    /\ tzOffset \in TimezoneOffsets
    /\ holidayCache = <<>>
    /\ lastDiag = NoDiag
    /\ response = NoResponse
    /\ refreshEnv = NoEnv
    /\ rf = IdleFrame
    /\ gen = IdleFrame
    /\ ld = IdleFrame
    /\ \E dateStr \in ShiftDates, holidays \in HolidayArrays :
          sh = [pc |-> "loop", dateStr |-> dateStr, holidays |-> holidays,
                d |-> NewDateFromIso(dateStr), steps |-> 0, ret |-> 0]

\* lines 29-31, the iteration that finds a non-trading candidate
ShiftStepBack ==
    /\ sh.pc = "loop"
    /\ LET d1 == SetDatePlus(sh.d, -1)
           candidate == formatDateIST(d1)
       IN  /\ isNonTradingDay(candidate, sh.holidays)
           /\ sh' = [sh EXCEPT !.d = d1, !.steps = @ + 1]
    /\ UNCHANGED <<tzOffset, holidayCache, lastDiag, response, refreshEnv, rf, gen, ld>>

\* lines 29-31, the iteration that returns
ShiftReturn ==
    /\ sh.pc = "loop"
    /\ LET d1 == SetDatePlus(sh.d, -1)
           candidate == formatDateIST(d1)
       IN  /\ ~isNonTradingDay(candidate, sh.holidays)
           /\ sh' = [sh EXCEPT !.d = d1, !.steps = @ + 1, !.ret = candidate,
                               !.pc = "done"]
    /\ UNCHANGED <<tzOffset, holidayCache, lastDiag, response, refreshEnv, rf, gen, ld>>

NextShift == ShiftStepBack \/ ShiftReturn

SpecShift == InitShift /\ [][NextShift]_vars

-----------------------------------------------------------------------------
(* The calendar the claims speak of: the weekday of the named date itself *)

CalWeekend(s) == WeekdayOfDay(DayOfText(s)) \in {0, 6}
CalNonTrading(s, holidays) == CalWeekend(s) \/ s \in Range(holidays)

\* the days strictly between two date texts
DaysBetween(a, b) == {IsoText(n) : n \in (DayOfText(a) + 1)..(DayOfText(b) - 1)}

\* the run of consecutive non-trading days immediately before date text s
RECURSIVE RunBefore(_, _)
RunBefore(s, holidays) ==
    LET p == IsoText(DayOfText(s) - 1)
    IN  IF CalNonTrading(p, holidays) THEN 1 + RunBefore(p, holidays) ELSE 0

ShiftResultOk ==
    /\ sh.ret < sh.dateStr
    /\ ~CalNonTrading(sh.ret, sh.holidays)
    /\ \A s \in DaysBetween(sh.ret, sh.dateStr) : CalNonTrading(s, sh.holidays)

\* C1: shiftToPreviousTradingDay(d, H) returns the latest date strictly before d
\* that is neither a Saturday/Sunday nor in H, whatever d is.
C1_ShiftReturnsLatestPriorTradingDay ==
    sh.pc = "done" => ShiftResultOk

\* C1 on hosts whose local time is at or ahead of UTC
C1_HoldsAtOrEastOfUtc ==
    (sh.pc = "done" /\ tzOffset <= 0) => ShiftResultOk

C1_Witness_TradingDayArgument ==
    /\ sh.pc = "done"
    /\ tzOffset <= 0
    /\ ~CalNonTrading(sh.dateStr, sh.holidays)
    /\ sh.steps > 1

\* C10 (steps): the number of backward steps is the length of the run of
\* consecutive non-trading days immediately preceding d, plus one.
C10_StepsAreRunLengthPlusOne ==
    sh.pc = "done" => sh.steps = RunBefore(sh.dateStr, sh.holidays) + 1

C10_StepsHoldAtOrEastOfUtc ==
    (sh.pc = "done" /\ tzOffset <= 0) =>
        sh.steps = RunBefore(sh.dateStr, sh.holidays) + 1

\* C10 (termination): every iteration that does not return has stepped onto a
\* holiday of the array or onto one of the two weekend days around it, so the
\* loop returns within 3 * |H| + 3 iterations
C10_LoopReturnsWithinBound ==
    /\ sh.pc = "loop" => ENABLED NextShift
    /\ sh.steps <= 3 * Len(sh.holidays) + 3


-----------------------------------------------------------------------------
(* SpecGen: one call of generateExpiries, one month per step *)

\* start dates: first, middle and last days of months, a year end, a leap February
GenStartDates ==
    {20251001, 20251016, 20251031, 20251101, 20251201, 20251231, 20240201, 20240229}

InitGen ==
    /\ tzOffset \in TimezoneOffsets
    /\ holidayCache = <<>>
    /\ lastDiag = NoDiag
    /\ response = NoResponse
    /\ refreshEnv = NoEnv
    /\ rf = IdleFrame
    /\ sh = IdleFrame
    /\ ld = IdleFrame
    /\ \E s \in GenStartDates, n \in 0..MaxMonths :
          gen = [pc |-> "loop", startDate |-> IsoStr(s), monthsAhead |-> Num(n),
                 m |-> 0, expiries |-> <<>>, ret |-> <<>>]

\* lines 40-46, one month
GenStepMonth ==
    /\ gen.pc = "loop"
    /\ LessThanNumber(gen.m, gen.monthsAhead)
    /\ gen' = [gen EXCEPT !.expiries = @ \o GenMonth(gen.startDate, gen.m),
                          !.m = @ + 1]
    /\ UNCHANGED <<tzOffset, holidayCache, lastDiag, response, refreshEnv, rf, sh, ld>>

\* line 47
GenReturn ==
    /\ gen.pc = "loop"
    /\ ~LessThanNumber(gen.m, gen.monthsAhead)
    /\ gen' = [gen EXCEPT !.ret = DedupeSort(gen.expiries), !.pc = "done"]
    /\ UNCHANGED <<tzOffset, holidayCache, lastDiag, response, refreshEnv, rf, sh, ld>>

NextGen == GenStepMonth \/ GenReturn

SpecGen == InitGen /\ [][NextGen]_vars

\* index of a calendar month: year * 12 + 0-based month
MonthIndexOfText(s) == (s \div 10000) * 12 + ((s \div 100) % 100) - 1
MonthIndexOfDay(n) == YearOfDay(n) * 12 + MonthOfDay(n)
FirstDayOfMonthIndex(i) == DaysFromCivil(i \div 12, i % 12, 1)

\* the Thursdays of the n consecutive calendar months beginning with the month
\* the text s names
ThursdaysOfMonths(s, n) ==
    LET i0 == MonthIndexOfText(s)
    IN  {IsoText(x) : x \in {y \in FirstDayOfMonthIndex(i0)..(FirstDayOfMonthIndex(i0 + n) - 1) :
                                WeekdayOfDay(y) = 4}}

GenResultOk ==
    gen.ret = SortedSeqOf(ThursdaysOfMonths(gen.startDate.v, gen.monthsAhead.v))

\* C3: generateExpiries(startDate, monthsAhead) returns exactly the Thursdays of the
\* monthsAhead consecutive calendar months beginning with startDate's own month,
\* each once, ascending; monthsAhead = 0 gives the empty series.
C3_GenerateIsThursdaysOfMonths ==
    gen.pc = "done" => GenResultOk

\* C3 on hosts whose local time is at or ahead of UTC
C3_HoldsAtOrEastOfUtc ==
    (gen.pc = "done" /\ tzOffset <= 0) => GenResultOk

C3_Witness_YearRollover ==
    /\ gen.pc = "done"
    /\ tzOffset <= 0
    /\ gen.startDate.v = 20251231
    /\ gen.monthsAhead.v = 2
    /\ Len(gen.ret) = 9
    /\ gen.ret[1] = 20251204
    /\ gen.ret[9] = 20260129


-----------------------------------------------------------------------------
(* SpecLoad: one call of loadHolidaysFromXlsx, one column per step *)

\* largest number of rows of a sheet
MaxRows == 2

\* the cells of a sheet: a note, a missing cell, a date serial and a date text
SheetCells ==
    {Cell("word", 0), NullCell, Cell("serial", BaseThursday - ExcelBaseDay),
     Cell("dMonY", IsoText(BaseThursday - 1))}

SheetRows == UNION {[1..n -> SheetCells] : n \in 0..2}
Sheets == UNION {[1..n -> SheetRows] : n \in 0..MaxRows}

InitLoad ==
    /\ tzOffset \in TimezoneOffsets
    /\ holidayCache = <<>>
    /\ lastDiag = NoDiag
    /\ response = NoResponse
    /\ refreshEnv = NoEnv
    /\ rf = IdleFrame
    /\ sh = IdleFrame
    /\ gen = IdleFrame
    /\ \E rows \in Sheets :
          ld = [pc |-> "scan", rows |-> rows, maxCols |-> MaxRowLength(rows),
                col |-> 0, best |-> <<0, 0>>, ret |-> <<>>, diag |-> NoDiag]

\* lines 112-116, one column
LoadScanColumn ==
    /\ ld.pc = "scan"
    /\ ld.col < ld.maxCols
    /\ ld' = [ld EXCEPT !.best = ScanColumn(ld.rows, ld.col, @), !.col = @ + 1]
    /\ UNCHANGED <<tzOffset, holidayCache, lastDiag, response, refreshEnv, rf, sh, gen>>

\* lines 118-139
LoadExtract ==
    /\ ld.pc = "scan"
    /\ ~(ld.col < ld.maxCols)
    /\ LET got == ExtractColumn(ld.rows, 1, ld.best[1], <<<<>>, <<>>>>)
       IN  ld' = [ld EXCEPT !.pc = "done",
                            !.ret = DedupeSort(got[1]),
                            !.diag = [source |-> "xlsx", rowCount |-> Len(ld.rows),
                                      bestCol |-> ld.best[1], bestCount |-> ld.best[2],
                                      samples |-> got[2]]]
    /\ UNCHANGED <<tzOffset, holidayCache, lastDiag, response, refreshEnv, rf, sh, gen>>

NextLoad == LoadScanColumn \/ LoadExtract

SpecLoad == InitLoad /\ [][NextLoad]_vars

\* the number of rows of the sheet whose cell in column col holds a date
\* (a date serial or a date text), counted on the sheet itself
DateKinds == {"serial", "isoText", "dMonY", "monthDY"}
DateRows(rows, col) ==
    Cardinality({i \in 1..Len(rows) :
                    col + 1 <= Len(rows[i]) /\ rows[i][col + 1].k \in DateKinds})
Width(rows) ==
    IF rows = <<>> THEN 0
    ELSE CHOOSE w \in {Len(rows[i]) : i \in 1..Len(rows)} :
            \A i \in 1..Len(rows) : Len(rows[i]) <= w

\* C8: bestCol has a maximal count of parsed rows over the columns [0, W), it is
\* the lowest such column, bestCount is that count, and an empty sheet or a sheet
\* with no date gives column 0, count 0 and no holidays.
C8_BestColumnIsLowestMaximal ==
    ld.pc = "done" =>
        LET W == Width(ld.rows)
            bestCol == ld.diag.bestCol
            bestCount == ld.diag.bestCount
        IN  /\ bestCount = DateRows(ld.rows, bestCol)
            /\ \A c \in 0..(W - 1) : DateRows(ld.rows, c) <= bestCount
            /\ \A c \in 0..(W - 1) : DateRows(ld.rows, c) = bestCount => bestCol <= c
            /\ (\A c \in 0..(W - 1) : DateRows(ld.rows, c) = 0) =>
                   (bestCol = 0 /\ bestCount = 0 /\ ld.ret = <<>>)

\* two columns tie and the lower one is chosen
C8_Witness_TieLowestWins ==
    /\ ld.pc = "done"
    /\ Width(ld.rows) = 2
    /\ DateRows(ld.rows, 0) = 1
    /\ DateRows(ld.rows, 1) = 1
    /\ ld.diag.bestCol = 0
    /\ ld.diag.bestCount = 1


-----------------------------------------------------------------------------
(* Spec: the server, from the end of its startup load *)

\* the holidays a file of the model lists: the weekdays of the pool
FilePool == {s \in HolidayPool : ~CalWeekend(s)}

\* the lines of a csv file listing the dates of S, latest first, each with a
\* note; a header line first, the earliest date listed twice, a blank line last
RECURSIVE DateLinesOf(_)
DateLinesOf(S) ==
    IF S = {} THEN <<>>
    ELSE LET x == CHOOSE y \in S : \A z \in S : z <= y
         IN  <<<<Cell("dMonY", x), Cell("word", 0)>>>> \o DateLinesOf(S \ {x})

CsvLinesOf(S) ==
    LET body == DateLinesOf(S)
    IN  <<<<Cell("word", 0), Cell("word", 0)>>>> \o body
        \o (IF body = <<>> THEN <<>> ELSE <<body[Len(body)]>>)
        \o <<<<Cell("blank", 0)>>>>

\* a sheet with the date serial of 2025-10-16 in its second column
SerialSheet ==
    << <<Cell("word", 0), Cell("word", 0)>>,
       <<Cell("word", 0), Cell("serial", BaseThursday + 14 - ExcelBaseDay)>> >>

\* the instants the clock is read at: noon UTC on 2025-09-25 and on 2026-01-15
Noon2025 == DaysFromCivil(2025, 8, 25) * MinPerDay + 720
Noon2026 == DaysFromCivil(2026, 0, 15) * MinPerDay + 720
Clock == {Noon2025, Noon2026}

\* what a refresh finds, <<the instant, the working directory>>: in 2025 no
\* file, a csv file listing any set of pool dates, a sheet, an empty sheet, an
\* unreadable file or files of other years only; in 2026 no file, an
\* unreadable file, or three files of which the second is the year's first
Environments ==
    {<<Noon2025, <<>>>>}
    \cup {<<Noon2025, <<HolidayFile(2025, "csv", FALSE, CsvLinesOf(S))>>>> :
             S \in SUBSET FilePool}
    \cup {<<Noon2025, <<HolidayFile(2025, "xlsx", FALSE, SerialSheet)>>>>,
          <<Noon2025, <<HolidayFile(2025, "xlsx", FALSE, <<>>)>>>>,
          <<Noon2025, <<HolidayFile(2025, "xlsx", TRUE, <<>>)>>>>,
          <<Noon2025, <<HolidayFile(2024, "csv", FALSE, CsvLinesOf({20241002}))>>>>,
          <<Noon2026, <<>>>>,
          <<Noon2026, <<HolidayFile(2026, "csv", TRUE, <<>>)>>>>,
          <<Noon2026, <<HolidayFile(2024, "csv", FALSE, CsvLinesOf({20241002})),
                        HolidayFile(2026, "xlsx", FALSE, SerialSheet),
                        HolidayFile(2026, "csv", FALSE, CsvLinesOf({20260126}))>>>>}

StartDateQueries ==
    {Absent, Query("empty", 0), Query("word", 0),
     Query("iso", 20250925), Query("iso", 20251001)}

\* new Date() of line 235 runs only when the startDate parameter is falsy
ClockReadFor(qs) == IF IsFalsy(qs) THEN Clock ELSE {Noon2025}

MonthsAheadQueries ==
    {Absent, Query("word", 0)} \cup {Query("digits", n) : n \in (0 - 1)..MaxMonths}

\* refreshHolidayCache() run to its end at instant now with directory dir
Refresh(now, dir) ==
    LET got == refreshHolidayCache(now, dir)
    IN  /\ holidayCache' = got.holidays
        /\ lastDiag' = got.diag
        /\ refreshEnv' = [year |-> getFullYear(now), dir |-> dir]

\* the module's variables as lines 9-10 initialise them, before line 216 runs
Init ==
    /\ tzOffset \in TimezoneOffsets
    /\ holidayCache = <<>>
    /\ lastDiag = NoDiag
    /\ refreshEnv = NoEnv
    /\ response = NoResponse
    /\ rf = IdleFrame
    /\ sh = IdleFrame
    /\ gen = IdleFrame
    /\ ld = IdleFrame

\* the startup load has run and the server listens (lines 216, 249)
Listening == refreshEnv.year # 0

\* line 216: the startup load
Startup ==
    /\ ~Listening
    /\ \E env \in Environments : Refresh(env[1], env[2])
    /\ UNCHANGED <<tzOffset, response, rf, sh, gen, ld>>

\* lines 219-221
GetHolidays ==
    /\ Listening
    /\ response' = [route |-> "holidays", status |-> 200, holidays |-> holidayCache]
    /\ UNCHANGED <<tzOffset, holidayCache, lastDiag, refreshEnv, rf, sh, gen, ld>>

\* lines 223-225
GetDebug ==
    /\ Listening
    /\ response' = [route |-> "debug", status |-> 200, diagnostics |-> lastDiag]
    /\ UNCHANGED <<tzOffset, holidayCache, lastDiag, refreshEnv, rf, sh, gen, ld>>

\* lines 227-230
ReloadHolidays ==
    /\ Listening
    /\ \E env \in Environments : Refresh(env[1], env[2])
    /\ response' = [route |-> "reload", status |-> 200, holidays |-> holidayCache',
                    diagnostics |-> lastDiag']
    /\ UNCHANGED <<tzOffset, rf, sh, gen, ld>>

\* lines 232-247.  raw and invalid are not part of the body sent: they record
\* the series before adjustment and whether the request's parameters were
\* structurally invalid (a start date that is no date, a negative monthsAhead).
GetExpiries ==
    /\ Listening
    /\ \E qs \in StartDateQueries, qm \in MonthsAheadQueries :
       \E now \in ClockReadFor(qs) :
          LET monthsAhead == MonthsAheadOf(qm)
              startDate == StartDateOf(qs, now)
              expiries == generateExpiries(startDate, monthsAhead)
              adjusted == AdjustAll(expiries, holidayCache)
          IN  response' = [route |-> "expiries",
                           status |-> ExpiriesStatus(startDate, monthsAhead),
                           expiries |-> adjusted, holidays |-> holidayCache,
                           raw |-> expiries,
                           invalid |-> (qs.k = "word" \/ (qm.k = "digits" /\ qm.v < 0))]
    /\ UNCHANGED <<tzOffset, holidayCache, lastDiag, refreshEnv, rf, sh, gen, ld>>

Next == Startup \/ GetHolidays \/ GetDebug \/ ReloadHolidays \/ GetExpiries

Spec == Init /\ [][Next]_vars


-----------------------------------------------------------------------------
(* Claims about the server *)

Ascending(arr) == \A i \in 1..(Len(arr) - 1) : arr[i] < arr[i + 1]
NonDecreasing(arr) == \A i \in 1..(Len(arr) - 1) : arr[i] <= arr[i + 1]

\* C2: the adjusted series of every expiries response is ascending with no
\* duplicate.
C2_AdjustedAscendingNoDuplicates ==
    response.route = "expiries" => Ascending(response.expiries)

\* what the route does guarantee: the adjusted series is in non-decreasing
\* order, and two neighbours are equal only when the later raw Thursday is a
\* cached holiday.
C2_AdjustedNonDecreasing ==
    response.route = "expiries" =>
        /\ Len(response.expiries) = Len(response.raw)
        /\ NonDecreasing(response.expiries)
        /\ \A i \in 1..(Len(response.expiries) - 1) :
              response.expiries[i] = response.expiries[i + 1] =>
                  Includes(response.holidays, response.raw[i + 1])

\* two raw Thursdays adjusted to the same date
C2_Witness_DuplicateAdjusted ==
    /\ response.route = "expiries"
    /\ \E i \in 1..(Len(response.expiries) - 1) :
          /\ response.expiries[i] = response.expiries[i + 1]
          /\ response.raw[i] < response.raw[i + 1]

\* the latest calendar trading day strictly before date text s
RECURSIVE PrevCalTradingDay(_, _)
PrevCalTradingDay(s, holidays) ==
    LET p == IsoText(DayOfText(s) - 1)
    IN  IF CalNonTrading(p, holidays) THEN PrevCalTradingDay(p, holidays) ELSE p

AdjustedOk ==
    \A i \in 1..Len(response.raw) :
        LET t == response.raw[i]
            a == response.expiries[i]
            H == response.holidays
        IN  /\ a = IF CalNonTrading(t, H) THEN PrevCalTradingDay(t, H) ELSE t
            /\ ~CalNonTrading(a, H)
            /\ a <= t

\* C4: each raw Thursday is kept when it is a trading day under the cached
\* holidays and otherwise replaced by the previous trading day, so every adjusted
\* expiry is a trading day no later than its raw Thursday.
C4_AdjustedIsTradingDayNotLater ==
    response.route = "expiries" => AdjustedOk

\* C4 on hosts whose local time is at or ahead of UTC
C4_HoldsAtOrEastOfUtc ==
    (response.route = "expiries" /\ tzOffset <= 0) => AdjustedOk

IsSortedSet(arr) == Ascending(arr)

\* the file of the year in the directory the last refresh saw, if any
YearFiles == {i \in 1..Len(refreshEnv.dir) : refreshEnv.dir[i].year = refreshEnv.year}
FirstYearFile == refreshEnv.dir[CHOOSE i \in YearFiles : \A j \in YearFiles : i <= j]
LoaderOutput(file) ==
    IF file.ext = "xlsx" THEN loadHolidaysFromXlsx(file.content).holidays
    ELSE loadHolidaysFromCsv(file.content).holidays

\* a source file of the year exists, loads without throwing and holds a date
SourceUsable ==
    /\ YearFiles # {}
    /\ ~FirstYearFile.corrupt
    /\ LoaderOutput(FirstYearFile) # <<>>

\* C5: after every run of refreshHolidayCache, holidayCache is sorted and
\* duplicate-free; it is the loader's output when a source file of the year
\* exists, loads and holds a date, and otherwise the fallback set with lastDiag
\* source "fallback".
C5_RefreshEndsWithLoadedOrFallback ==
    Listening =>
        /\ IsSortedSet(holidayCache)
        /\ IF SourceUsable
           THEN holidayCache = LoaderOutput(FirstYearFile)
           ELSE /\ holidayCache = fallbackHolidays(refreshEnv.year).holidays
                /\ lastDiag.source = "fallback"

\* a source file that loads but holds no date: the fallback is used
C5_Witness_EmptyLoadFallsBack ==
    /\ Listening
    /\ YearFiles # {}
    /\ ~FirstYearFile.corrupt
    /\ LoaderOutput(FirstYearFile) = <<>>
    /\ lastDiag.source = "fallback"
    /\ holidayCache # <<>>

\* the hardcoded list, normalized and sorted
Known2025Dates ==
    << 20250226, 20250314, 20250331, 20250410, 20250414, 20250418, 20250501,
       20250815, 20250827, 20251002, 20251021, 20251022, 20251105, 20251225 >>

\* C6: the fallback is the hardcoded list for the reference year 2025 only, and
\* the empty set for any other year.
C6_FallbackEmptyForOtherYears ==
    (Listening /\ lastDiag.source = "fallback") =>
        holidayCache = IF refreshEnv.year = 2025 THEN Known2025Dates ELSE <<>>

\* C7: an expiries request with a start date that is no date or a negative
\* monthsAhead is answered with an error, never with a successful response.
C7_InvalidRequestRejected ==
    (response.route = "expiries" /\ response.invalid) => response.status # 200

-----------------------------------------------------------------------------
(* SpecSteps: refreshHolidayCache observed statement by statement, with the
   reads of holidayCache and lastDiag arriving at any point of it *)

StepEnvironments ==
    {<<Noon2025, <<>>>>,
     <<Noon2025, <<HolidayFile(2025, "csv", FALSE, CsvLinesOf({IsoText(BaseThursday)}))>>>>,
     <<Noon2025, <<HolidayFile(2025, "csv", FALSE, CsvLinesOf({}))>>>>,
     <<Noon2025, <<HolidayFile(2025, "xlsx", FALSE, SerialSheet)>>>>,
     <<Noon2025, <<HolidayFile(2025, "xlsx", TRUE, <<>>)>>>>,
     <<Noon2026, <<>>>>}

\* rf.published: the values finished refreshes have assigned to holidayCache
InitSteps ==
    /\ tzOffset \in TimezoneOffsets
    /\ holidayCache = <<>>
    /\ lastDiag = NoDiag
    /\ refreshEnv = NoEnv
    /\ response = NoResponse
    /\ rf = [pc |-> "idle", now |-> 0, dir |-> <<>>, file |-> NoFile,
             loaded |-> <<>>, published |-> {}]
    /\ sh = IdleFrame
    /\ gen = IdleFrame
    /\ ld = IdleFrame

\* lines 188-189; the first run is the startup load of line 216
StepFind ==
    /\ rf.pc = "idle"
    /\ \E env \in StepEnvironments :
          rf' = [rf EXCEPT !.pc = "load", !.now = env[1], !.dir = env[2],
                           !.file = findHolidayFileForYear(env[2], getFullYear(env[1])),
                           !.loaded = <<>>]
    /\ UNCHANGED <<tzOffset, holidayCache, lastDiag, refreshEnv, response, sh, gen, ld>>

\* lines 191-201, the load returns
StepLoad ==
    /\ rf.pc = "load"
    /\ ~rf.file.corrupt
    /\ LET got == LoadFrom(rf.file, getFullYear(rf.now))
       IN  /\ rf' = [rf EXCEPT !.pc = "check", !.loaded = got.holidays]
           /\ lastDiag' = got.diag
           /\ holidayCache' = CacheWhileLoading(holidayCache, got.holidays)
    /\ UNCHANGED <<tzOffset, refreshEnv, response, sh, gen, ld>>

\* lines 191-201, the load throws
StepLoadThrows ==
    /\ rf.pc = "load"
    /\ rf.file.corrupt
    /\ rf' = [rf EXCEPT !.pc = "catch"]
    /\ UNCHANGED <<tzOffset, holidayCache, lastDiag, refreshEnv, response, sh, gen, ld>>

\* lines 203-206
StepCheckEmpty ==
    /\ rf.pc = "check"
    /\ LET got == FallbackIfEmpty([holidays |-> rf.loaded, diag |-> lastDiag],
                                  getFullYear(rf.now))
       IN  /\ rf' = [rf EXCEPT !.pc = "assign", !.loaded = got.holidays]
           /\ lastDiag' = got.diag
    /\ UNCHANGED <<tzOffset, holidayCache, refreshEnv, response, sh, gen, ld>>

\* line 208
StepAssign ==
    /\ rf.pc = "assign"
    /\ holidayCache' = rf.loaded
    /\ refreshEnv' = [year |-> getFullYear(rf.now), dir |-> rf.dir]
    /\ rf' = [rf EXCEPT !.pc = "idle", !.published = @ \cup {rf.loaded}]
    /\ UNCHANGED <<tzOffset, lastDiag, response, sh, gen, ld>>

\* lines 209-212
StepCatch ==
    /\ rf.pc = "catch"
    /\ LET got == RefreshCatch(rf.now)
       IN  /\ holidayCache' = got.holidays
           /\ lastDiag' = got.diag
           /\ rf' = [rf EXCEPT !.pc = "idle", !.published = @ \cup {got.holidays}]
    /\ refreshEnv' = [year |-> getFullYear(rf.now), dir |-> rf.dir]
    /\ UNCHANGED <<tzOffset, response, sh, gen, ld>>

NextSteps ==
    \/ StepFind \/ StepLoad \/ StepLoadThrows \/ StepCheckEmpty \/ StepAssign
    \/ StepCatch \/ GetHolidays \/ GetDebug

SpecSteps == InitSteps /\ [][NextSteps]_vars

\* C9: a refresh assigns holidayCache once, at its end, the whole final value
\* at a time, and every read of holidayCache observes the final value of some
\* finished refresh.
C9_CacheReplacedWholeAtEnd ==
    /\ [][holidayCache' # holidayCache =>
            /\ rf.pc \in {"assign", "catch"}
            /\ rf'.pc = "idle"
            /\ holidayCache' = refreshHolidayCache(rf.now, rf.dir).holidays]_vars
    /\ [](response.route = "holidays" => response.holidays \in rf.published)

\* a read served while a refresh has built a new set and not yet assigned it:
\* it saw the previous value
C9_Witness_ReadDuringRefresh ==
    /\ rf.pc = "assign"
    /\ rf.loaded # holidayCache
    /\ response.route = "holidays"
    /\ response.holidays = holidayCache
    /\ holidayCache \in rf.published

=============================================================================
